---- MODULE Spec2Model ----
(***************************************************************************)
(* A model of cd_calculator.py: the certificate-of-deposit calculator.     *)
(*                                                                         *)
(* Numbers.  Python floats are modelled as sign-magnitude decimal          *)
(* fixed-point numbers with FracLimbs limbs of LimbBase after the point    *)
(* (a resolution of 10^-16, the spacing of binary64 just below 1).  The    *)
(* magnitude is a little-endian sequence of limbs without leading zero     *)
(* limbs, so that equal numbers are equal values.  Every arithmetic step   *)
(* of the source is one operator here and truncates to that resolution.    *)
(*                                                                         *)
(* Text.  A string is a sequence of one-character strings.                 *)
(*                                                                         *)
(* Specifications.  Spec is the running program: each widget takes events  *)
(* only while its window is shown.  SpecCallbacks runs the same callbacks   *)
(* in any order, whichever window is shown.  SpecCalc applies calculate_cd  *)
(* to a grid of arguments and renders the result.                          *)
(*                                                                         *)
(* last and roundtrip are history variables: they record which callback    *)
(* ran last and the state it started in, and nothing reads them but the    *)
(* properties at the end.                                                  *)
(***************************************************************************)
EXTENDS Integers, Sequences, FiniteSets, TLC

LimbBase == 10000
FracLimbs == 4

(* ------------------------- magnitudes ---------------------------------- *)

RECURSIVE Norm(_)
Norm(a) ==
  IF a = <<>> THEN <<>>
  ELSE IF a[Len(a)] = 0 THEN Norm(SubSeq(a, 1, Len(a) - 1)) ELSE a

Limb(a, i) == IF i <= Len(a) THEN a[i] ELSE 0

MaxOf(m, n) == IF m >= n THEN m ELSE n

RECURSIVE AddFrom(_, _, _, _)
AddFrom(a, b, i, carry) ==
  IF i > MaxOf(Len(a), Len(b))
  THEN IF carry = 0 THEN <<>> ELSE <<carry>>
  ELSE LET s == Limb(a, i) + Limb(b, i) + carry
       IN  <<s % LimbBase>> \o AddFrom(a, b, i + 1, s \div LimbBase)

MagAdd(a, b) == Norm(AddFrom(a, b, 1, 0))

RECURSIVE LessFrom(_, _, _)
LessFrom(a, b, i) ==
  IF i = 0 THEN FALSE
  ELSE IF Limb(a, i) # Limb(b, i) THEN Limb(a, i) < Limb(b, i)
  ELSE LessFrom(a, b, i - 1)

MagLess(a, b) == LessFrom(a, b, MaxOf(Len(a), Len(b)))

RECURSIVE SubFrom(_, _, _, _)
SubFrom(a, b, i, borrow) ==
  IF i > Len(a) THEN <<>>
  ELSE LET d == Limb(a, i) - Limb(b, i) - borrow
       IN  IF d < 0 THEN <<d + LimbBase>> \o SubFrom(a, b, i + 1, 1)
           ELSE <<d>> \o SubFrom(a, b, i + 1, 0)

\* a - b for b <= a
MagSub(a, b) == Norm(SubFrom(a, b, 1, 0))

RECURSIVE MulSmallFrom(_, _, _, _)
MulSmallFrom(a, k, i, carry) ==
  IF i > Len(a)
  THEN IF carry = 0 THEN <<>>
       ELSE <<carry % LimbBase>> \o MulSmallFrom(a, k, i, carry \div LimbBase)
  ELSE LET p == a[i] * k + carry
       IN  <<p % LimbBase>> \o MulSmallFrom(a, k, i + 1, p \div LimbBase)

\* a * k for a small natural k (k <= 200000 keeps every step below 2^31)
MagMulSmall(a, k) == Norm(MulSmallFrom(a, k, 1, 0))

RECURSIVE DivSmallFrom(_, _, _, _)
DivSmallFrom(a, k, i, rem) ==
  IF i = 0 THEN <<>>
  ELSE LET cur == rem * LimbBase + a[i]
       IN  DivSmallFrom(a, k, i - 1, cur % k) \o <<cur \div k>>

\* floor(a / k) for a small positive k
MagDivSmall(a, k) == Norm(DivSmallFrom(a, k, Len(a), 0))

Zeros(n) == [i \in 1..n |-> 0]

MagShiftLeft(a, n) == IF a = <<>> THEN <<>> ELSE Zeros(n) \o a

MagShiftRight(a, n) == IF Len(a) <= n THEN <<>> ELSE SubSeq(a, n + 1, Len(a))

RECURSIVE MulFrom(_, _, _)
MulFrom(a, b, i) ==
  IF i > Len(b) THEN <<>>
  ELSE MagAdd(MagShiftLeft(MagMulSmall(a, b[i]), i - 1), MulFrom(a, b, i + 1))

MagMul(a, b) == MulFrom(a, b, 1)

TenTo(n) == CASE n = 0 -> 1 [] n = 1 -> 10 [] n = 2 -> 100 [] n = 3 -> 1000

\* a * 10^n and floor(a / 10^n): whole limbs are shifted, the rest is one small step
MagTimesTenTo(a, n) == MagShiftLeft(MagMulSmall(a, TenTo(n % 4)), n \div 4)

MagOverTenTo(a, n) == MagDivSmall(MagShiftRight(a, n \div 4), TenTo(n % 4))

MagOfNat(n) == Norm(<<n % LimbBase, (n \div LimbBase) % LimbBase, n \div (LimbBase * LimbBase)>>)

(* ------------------------- fixed-point magnitudes ---------------------- *)

FracDigits == 4 * FracLimbs

\* the magnitude of n * 10^-k
Decimal(n, k) == MagTimesTenTo(MagOfNat(n), FracDigits - k)

One == Decimal(1, 0)

FixMul(x, y) == MagShiftRight(MagMul(x, y), FracLimbs)

\* ln(1 + x) = x - x^2/2 + x^3/3 - ... for 0 <= x < 1, summed until the terms vanish
\* (pos >= neg throughout: the series alternates and its terms decrease)
RECURSIVE LnSeries(_, _, _, _, _)
LnSeries(x, pw, k, pos, neg) ==
  LET t == MagDivSmall(pw, k)
  IN  IF t = <<>> \/ Len(pos) < Len(neg) THEN MagSub(pos, neg)
      ELSE IF k % 2 = 1 THEN LnSeries(x, FixMul(pw, x), k + 1, MagAdd(pos, t), neg)
      ELSE LnSeries(x, FixMul(pw, x), k + 1, pos, MagAdd(neg, t))

Ln1p(x) == LnSeries(x, x, 1, <<>>, <<>>)

\* exp(z) = 1 + z + z^2/2! + ... for z >= 0, summed until the terms vanish
\* (acc >= 1 throughout)
RECURSIVE ExpSeries(_, _, _, _)
ExpSeries(z, t, k, acc) ==
  IF t = <<>> \/ acc = <<>> THEN acc
  ELSE ExpSeries(z, MagDivSmall(FixMul(t, z), k + 1), k + 1, MagAdd(acc, t))

Exp(z) == ExpSeries(z, z, 1, One)

\* base ** exponent for base >= 1 and exponent >= 0, as exp(exponent * ln(base))
PowSeries(base, exponent) ==
  IF base = One \/ exponent = <<>> THEN One
  ELSE Exp(FixMul(exponent, Ln1p(MagSub(base, One))))

(* ------------------------- signed numbers ------------------------------ *)

Number(neg, mag) == [neg |-> neg, mag |-> mag]

NumZero == Number(FALSE, <<>>)

NumOne == Number(FALSE, One)

NumOfNat(n) == Number(FALSE, Decimal(n, 0))

NumNeg(x) == Number(~x.neg, x.mag)

\* x + y under the IEEE sign rules: an exact zero sum of opposite signs is +0.0
NumAdd(x, y) ==
  IF x.neg = y.neg THEN Number(x.neg, MagAdd(x.mag, y.mag))
  ELSE IF x.mag = y.mag THEN NumZero
  ELSE IF MagLess(x.mag, y.mag) THEN Number(y.neg, MagSub(y.mag, x.mag))
  ELSE Number(x.neg, MagSub(x.mag, y.mag))

NumSub(x, y) == NumAdd(x, NumNeg(y))

NumMul(x, y) == Number(x.neg # y.neg, FixMul(x.mag, y.mag))

\* x * k and x / k for a positive whole k
NumMulSmall(x, k) == Number(x.neg, MagMulSmall(x.mag, k))

NumDivSmall(x, k) == Number(x.neg, MagDivSmall(x.mag, k))

\* x < y as floats compare (-0.0 = +0.0)
NumLess(x, y) ==
  IF x.neg # y.neg THEN x.neg /\ (x.mag # <<>> \/ y.mag # <<>>)
  ELSE IF x.neg THEN MagLess(y.mag, x.mag) ELSE MagLess(x.mag, y.mag)

NumEq(x, y) == ~NumLess(x, y) /\ ~NumLess(y, x)

(* ------------------------- CONSTANTS of the program -------------------- *)

DAYS_PER_YEAR == 365
MONTHS_PER_YEAR == 12
TERM_DEFAULT == "[Select a Term]"
EMPTY_DISPLAY == <<"$", " ", " ", " ", " ", " ", " ", " ", " ", " ", " ", " ", " ">>

(* ------------------------- float(text) --------------------------------- *)

DigitChars == {"0", "1", "2", "3", "4", "5", "6", "7", "8", "9"}

DigitVal(c) ==
  CASE c = "0" -> 0 [] c = "1" -> 1 [] c = "2" -> 2 [] c = "3" -> 3 [] c = "4" -> 4
    [] c = "5" -> 5 [] c = "6" -> 6 [] c = "7" -> 7 [] c = "8" -> 8 [] c = "9" -> 9

DigitChar(d) ==
  CASE d = 0 -> "0" [] d = 1 -> "1" [] d = 2 -> "2" [] d = 3 -> "3" [] d = 4 -> "4"
    [] d = 5 -> "5" [] d = 6 -> "6" [] d = 7 -> "7" [] d = 8 -> "8" [] d = 9 -> "9"

ValueError == "ValueError"
KeyError == "KeyError"
NoError == "none"

RECURSIVE MagOfDigits(_, _)
MagOfDigits(ds, acc) ==
  IF ds = <<>> THEN acc
  ELSE MagOfDigits(Tail(ds), MagAdd(MagMulSmall(acc, 10), MagOfNat(DigitVal(Head(ds)))))

\* float(text) accepts an optional sign, then digits with at most one point and
\* at least one digit; on anything else it raises ValueError.  (Python also
\* accepts surrounding blanks, exponents, underscores, "inf" and "nan"; the
\* texts of this model hold none of their characters.)
FloatBody(text) == IF text # <<>> /\ Head(text) \in {"-", "+"} THEN Tail(text) ELSE text

FloatRaises(text) ==
  LET body   == FloatBody(text)
      points == {i \in 1..Len(body) : body[i] = "."}
      digits == SelectSeq(body, LAMBDA c : c # ".")
  IN  ~ /\ digits # <<>>
        /\ \A i \in 1..Len(digits) : digits[i] \in DigitChars
        /\ Cardinality(points) <= 1

\* the value of float(text) when it does not raise
float(text) ==
  LET body   == FloatBody(text)
      points == {i \in 1..Len(body) : body[i] = "."}
      digits == SelectSeq(body, LAMBDA c : c # ".")
      after  == IF points = {} THEN 0 ELSE Len(body) - (CHOOSE i \in points : TRUE)
  IN  Number(Head(text) = "-", MagTimesTenTo(MagOfDigits(digits, <<>>), FracDigits - after))

(* ------------------------- f'${x:.2f}' --------------------------------- *)

RECURSIVE DigitsOf(_)
DigitsOf(a) ==
  IF a = <<>> THEN <<>>
  ELSE DigitsOf(MagDivSmall(a, 10)) \o <<DigitChar(a[1] % 10)>>

\* the magnitude in whole cents, rounded half to even
Cents(mag) ==
  LET q    == MagOverTenTo(mag, FracDigits - 2)
      r    == MagSub(mag, MagTimesTenTo(q, FracDigits - 2))
      half == MagTimesTenTo(MagOfNat(5), FracDigits - 3)
      odd  == q # <<>> /\ q[1] % 2 = 1
  IN  IF MagLess(half, r) \/ (r = half /\ odd) THEN MagAdd(q, MagOfNat(1)) ELSE q

FormatMoney(x) ==
  LET ds   == DigitsOf(Cents(x.mag))
      pad  == IF Len(ds) >= 3 THEN ds ELSE [i \in 1..(3 - Len(ds)) |-> "0"] \o ds
      n    == Len(pad)
  IN  <<"$">> \o (IF x.neg THEN <<"-">> ELSE <<>>)
        \o SubSeq(pad, 1, n - 2) \o <<".">> \o SubSeq(pad, n - 1, n)

(* ------------------------- calculate_cd -------------------------------- *)

\* 1 + rate / DAYS_PER_YEAR
DailyBase(rate) == NumAdd(NumOne, NumDivSmall(rate, DAYS_PER_YEAR))

\* term * DAYS_PER_YEAR / MONTHS_PER_YEAR
TermDays(term) == NumDivSmall(NumMulSmall(NumOfNat(term), DAYS_PER_YEAR), MONTHS_PER_YEAR)

\* The powers the catalogue's three terms need, worked out once; this only
\* saves the series from being summed again in every state.
PowMemo ==
  {<<DailyBase(p[1]).mag, TermDays(p[2]).mag,
     PowSeries(DailyBase(p[1]).mag, TermDays(p[2]).mag)>> :
     p \in {<<Number(FALSE, Decimal(512, 4)), 8>>, <<Number(FALSE, Decimal(512, 4)), 15>>,
            <<Number(FALSE, Decimal(405, 4)), 29>>}}

Pow(base, exponent) ==
  IF \E m \in PowMemo : m[1] = base /\ m[2] = exponent
  THEN (CHOOSE m \in PowMemo : m[1] = base /\ m[2] = exponent)[3]
  ELSE PowSeries(base, exponent)

\* x ** y for x >= 1 and y >= 0
NumPow(x, y) == Number(FALSE, Pow(x.mag, y.mag))

\* mutant: the difference taken the wrong way round
calculate_cd_swapped(principal, rate, term) ==
  LET total       == NumMul(principal, NumPow(DailyBase(rate), TermDays(term)))
      mean_return == NumDivSmall(NumSub(principal, total), term)
  IN  <<mean_return, total>>

\* mutant: compounding once a month instead of once a day
calculate_cd_monthly(principal, rate, term) ==
  LET total       == NumMul(principal, NumPow(NumAdd(NumOne, NumDivSmall(rate, MONTHS_PER_YEAR)),
                                              NumOfNat(term)))
      mean_return == NumDivSmall(NumSub(total, principal), term)
  IN  <<mean_return, total>>

\* principal and rate are Numbers, term a positive whole number of months
calculate_cd(principal, rate, term) ==
  LET total       == NumMul(principal, NumPow(DailyBase(rate), TermDays(term)))
      mean_return == NumDivSmall(NumSub(total, principal), term)
  IN  <<mean_return, total>>

(* ------------------------- DATA and widgets ---------------------------- *)

Rate(n, k) == Number(FALSE, Decimal(n, k))

\* the catalogue as the module builds it: label -> (rate, term)
CD_OPTIONS ==
  [label \in {"8-Month", "15-Month", "29-Month"} |->
     CASE label = "8-Month"  -> <<Rate(512, 4), 8>>
       [] label = "15-Month" -> <<Rate(512, 4), 15>>
       [] label = "29-Month" -> <<Rate(405, 4), 29>>]

term_options == {TERM_DEFAULT} \cup DOMAIN CD_OPTIONS

\* the texts a user can leave in the principal entry
MaxLen == 2
Chars == {"0", "5", "-", ".", "a"}
Texts == UNION {[1..n -> Chars] : n \in 0..MaxLen}

Normal == "normal"
Withdrawn == "withdrawn"
Destroyed == "destroyed"

VARIABLES
  window,            \* state of each toplevel: "selection" (the root) and "calculation"
  term_selection,    \* the StringVar behind the dropdown
  entry_principal,   \* the text of the principal Entry
  display_dividends, \* text of the dividends Label
  display_total,     \* text of the total Label
  cd_options,        \* the catalogue dict
  escaped,           \* the exception the last callback let out to Tk, if any
  last,              \* history: the last callback run and the state it started in
  roundtrip,         \* history: a Next that swapped, then a Back right after it
  args,              \* calculate_cd called on its own: its arguments
  result,            \* ... its return value
  rendered           \* ... and that value formatted to two decimals

gui == <<window, term_selection, entry_principal, display_dividends, display_total,
         cd_options, escaped>>
history == <<last, roundtrip>>
harness == <<args, result, rendered>>
vars == <<gui, history, harness>>

Selection == [w \in {"selection", "calculation"} |->
                IF w = "selection" THEN Normal ELSE Withdrawn]
Calculation == [w \in {"selection", "calculation"} |->
                  IF w = "calculation" THEN Normal ELSE Withdrawn]

Snapshot == [window |-> window, term |-> term_selection, entry |-> entry_principal,
             dividends |-> display_dividends, total |-> display_total,
             options |-> cd_options]

NoSnapshot == [window |-> Selection, term |-> "", entry |-> <<>>, dividends |-> <<>>,
               total |-> <<>>, options |-> <<>>]

\* the module's top-level statements, up to mainloop()
InitGui ==
  /\ window = Selection
  /\ term_selection = TERM_DEFAULT
  /\ entry_principal = <<>>
  /\ display_dividends = EMPTY_DISPLAY
  /\ display_total = EMPTY_DISPLAY
  /\ cd_options = CD_OPTIONS
  /\ escaped = NoError
  /\ last = [op |-> "start", pre |-> NoSnapshot]
  /\ roundtrip = [phase |-> "idle", start |-> NoSnapshot]

NoArgs == [principal |-> NumZero, rate |-> NumZero, term |-> 0]

Init ==
  /\ InitGui
  /\ args = NoArgs /\ result = <<>> /\ rendered = <<>>

(* ------------------------- callbacks ----------------------------------- *)

\* mutant: the open window is never withdrawn
swap_windows_no_withdraw(open_window, closed_window) ==
  /\ window' = [window EXCEPT ![closed_window] = Normal]
  /\ escaped' = NoError
  /\ UNCHANGED <<term_selection, entry_principal, display_dividends, display_total,
                 cd_options>>

\* mutant: the two windows exchange their states
swap_windows_toggle(open_window, closed_window) ==
  /\ window' = [window EXCEPT ![open_window] = window[closed_window],
                              ![closed_window] = window[open_window]]
  /\ escaped' = NoError
  /\ UNCHANGED <<term_selection, entry_principal, display_dividends, display_total,
                 cd_options>>

\* mutant: a swap also puts the dropdown back on the sentinel
swap_windows_resetting(open_window, closed_window) ==
  /\ window' = [window EXCEPT ![open_window] = Withdrawn, ![closed_window] = Normal]
  /\ escaped' = NoError
  /\ term_selection' = TERM_DEFAULT
  /\ UNCHANGED <<entry_principal, display_dividends, display_total, cd_options>>

swap_windows(open_window, closed_window) ==
  /\ window' = [window EXCEPT ![open_window] = Withdrawn, ![closed_window] = Normal]
  /\ escaped' = NoError
  /\ UNCHANGED <<term_selection, entry_principal, display_dividends, display_total,
                 cd_options>>

\* mutants: the check passes everything; the comparison is inverted
validate_term_always(selection) == TRUE

validate_term_inverted(selection) == selection = TERM_DEFAULT

validate_term(selection) == selection # TERM_DEFAULT

swap_after_validation(open_window, closed_window) ==
  IF validate_term(term_selection)
  THEN swap_windows(open_window, closed_window)
  ELSE escaped' = NoError /\
       UNCHANGED <<window, term_selection, entry_principal, display_dividends,
                   display_total, cd_options>>

exit_program ==
  /\ window' = [w \in DOMAIN window |-> Destroyed]
  /\ escaped' = NoError
  /\ UNCHANGED <<term_selection, entry_principal, display_dividends, display_total,
                 cd_options>>

\* mutant: the except clause blanks one display only
calculate_cd_from_entry_partial ==
  LET selection == term_selection
      principal == float(entry_principal)
  IN  /\ IF FloatRaises(entry_principal)
         THEN /\ display_dividends' = EMPTY_DISPLAY
              /\ escaped' = NoError
              /\ UNCHANGED display_total
         ELSE IF selection \notin DOMAIN cd_options
         THEN /\ escaped' = KeyError
              /\ UNCHANGED <<display_dividends, display_total>>
         ELSE LET out == calculate_cd(principal, cd_options[selection][1],
                                      cd_options[selection][2])
              IN  /\ display_dividends' = FormatMoney(out[1])
                  /\ display_total' = FormatMoney(out[2])
                  /\ escaped' = NoError
      /\ UNCHANGED <<window, term_selection, entry_principal, cd_options>>

calculate_cd_from_entry ==
  LET selection == term_selection
      principal == float(entry_principal)
  IN  /\ IF FloatRaises(entry_principal)
         THEN \* float() raises; except ValueError
              /\ display_dividends' = EMPTY_DISPLAY
              /\ display_total' = EMPTY_DISPLAY
              /\ escaped' = NoError
         ELSE IF selection \notin DOMAIN cd_options
         THEN \* cd_options[selection] raises KeyError, which no clause catches
              /\ escaped' = KeyError
              /\ UNCHANGED <<display_dividends, display_total>>
         ELSE LET out == calculate_cd(principal, cd_options[selection][1],
                                      cd_options[selection][2])
              IN  /\ display_dividends' = FormatMoney(out[1])
                  /\ display_total' = FormatMoney(out[2])
                  /\ escaped' = NoError
      /\ UNCHANGED <<window, term_selection, entry_principal, cd_options>>

(* ------------------------- events ------------------------------------- *)

Alive == \A w \in DOMAIN window : window[w] # Destroyed

Record(op) == last' = [op |-> op, pre |-> Snapshot]

Idle == roundtrip' = [phase |-> "idle", start |-> NoSnapshot]

\* the dropdown sets its variable to one of term_options
ChooseTerm ==
  /\ \E label \in term_options : term_selection' = label
  /\ escaped' = NoError
  /\ UNCHANGED <<window, entry_principal, display_dividends, display_total, cd_options>>
  /\ last' = [op |-> "choose", pre |-> NoSnapshot] /\ Idle
  /\ UNCHANGED harness

\* a character is typed at the end of entry_principal
TypeKey ==
  /\ Len(entry_principal) < MaxLen
  /\ \E c \in Chars : entry_principal' = Append(entry_principal, c)
  /\ escaped' = NoError
  /\ UNCHANGED <<window, term_selection, display_dividends, display_total, cd_options>>
  /\ last' = [op |-> "edit", pre |-> NoSnapshot] /\ Idle
  /\ UNCHANGED harness

\* BackSpace at the end of entry_principal
DeleteKey ==
  /\ entry_principal # <<>>
  /\ entry_principal' = SubSeq(entry_principal, 1, Len(entry_principal) - 1)
  /\ escaped' = NoError
  /\ UNCHANGED <<window, term_selection, display_dividends, display_total, cd_options>>
  /\ last' = [op |-> "edit", pre |-> NoSnapshot] /\ Idle
  /\ UNCHANGED harness

\* command of button_to_calculation, "Next"
button_to_calculation ==
  /\ swap_after_validation("selection", "calculation")
  /\ Record("advance")
  /\ roundtrip' = IF window = Selection /\ window' = Calculation
                  THEN [phase |-> "advanced", start |-> Snapshot]
                  ELSE [phase |-> "idle", start |-> NoSnapshot]
  /\ UNCHANGED harness

\* command of button_to_calculate, "Calculate"
button_to_calculate ==
  /\ calculate_cd_from_entry
  /\ Record("calculate") /\ Idle
  /\ UNCHANGED harness

\* command of button_to_selection, "Back"
button_to_selection ==
  /\ swap_windows("calculation", "selection")
  /\ Record("retreat")
  /\ roundtrip' = IF roundtrip.phase = "advanced"
                  THEN [phase |-> "returned", start |-> roundtrip.start]
                  ELSE [phase |-> "idle", start |-> NoSnapshot]
  /\ UNCHANGED harness

\* command of button_to_exit, "Exit"
button_to_exit ==
  /\ exit_program
  /\ Record("exit") /\ Idle
  /\ UNCHANGED harness

(* The running program: a widget takes events only while its window is shown. *)
(* The dropdown and "Next" are on the selection window; the entry,            *)
(* "Calculate", "Back" and "Exit" are on the calculation window.              *)

\* mutant: the dropdown takes events whichever window is shown
TermChosenAnywhere == Alive /\ ChooseTerm

TermChosen == window["selection"] = Normal /\ ChooseTerm

NavigateForward == window["selection"] = Normal /\ button_to_calculation

KeyTyped == window["calculation"] = Normal /\ TypeKey

KeyDeleted == window["calculation"] = Normal /\ DeleteKey

CalculateRequested == window["calculation"] = Normal /\ button_to_calculate

NavigateBack == window["calculation"] = Normal /\ button_to_selection

ExitRequested == window["calculation"] = Normal /\ button_to_exit

Next ==
  \/ TermChosen
  \/ NavigateForward
  \/ KeyTyped
  \/ KeyDeleted
  \/ CalculateRequested
  \/ NavigateBack
  \/ ExitRequested

Spec == Init /\ [][Next]_vars

(* The callbacks on their own: the same commands invoked in any order while   *)
(* the windows exist, as a caller of advance / retreat / calculate would,     *)
(* whichever window is shown.                                                 *)

SetTerm == Alive /\ ChooseTerm

InsertText == Alive /\ TypeKey

DeleteText == Alive /\ DeleteKey

Advance == Alive /\ button_to_calculation

Calculate == Alive /\ button_to_calculate

Retreat == Alive /\ button_to_selection

Terminate == Alive /\ button_to_exit

NextCallbacks ==
  \/ SetTerm
  \/ InsertText
  \/ DeleteText
  \/ Advance
  \/ Calculate
  \/ Retreat
  \/ Terminate

SpecCallbacks == Init /\ [][NextCallbacks]_vars

(* calculate_cd on its own, over a grid of arguments, and its result rendered *)
(* as calculate_cd_from_entry renders it.                                     *)

Principals == {Number(TRUE, Decimal(5, 0)), NumZero, Number(FALSE, Decimal(1, 2)),
               NumOfNat(1), NumOfNat(1000), NumOfNat(5000)}

Rates == {NumZero, Rate(1, 16), Rate(1, 4), Rate(405, 4), Rate(512, 4), Rate(99, 2)}

Terms == {1, 8, 15, 29}

InitCalc ==
  /\ InitGui
  /\ args \in [principal : Principals, rate : Rates, term : Terms]
  /\ result = <<>> /\ rendered = <<>>

CallCalculateCd ==
  /\ result = <<>>
  /\ result' = calculate_cd(args.principal, args.rate, args.term)
  /\ UNCHANGED <<args, rendered, gui, history>>

RenderResult ==
  /\ result # <<>> /\ rendered = <<>>
  /\ rendered' = <<FormatMoney(result[1]), FormatMoney(result[2])>>
  /\ UNCHANGED <<args, result, gui, history>>

NextCalc == CallCalculateCd \/ RenderResult

SpecCalc == InitCalc /\ [][NextCalc]_vars

(* ========================= properties ================================== *)

InCatalog(label) == label \in DOMAIN cd_options /\ label # TERM_DEFAULT

BothBlank == display_dividends = EMPTY_DISPLAY /\ display_total = EMPTY_DISPLAY

\* C1: "Next" pressed on the selection screen while the term is still the
\* sentinel changes nothing at all (windows, term, entry, both displays, the
\* catalogue) and raises nothing; being an invariant of every reachable
\* state, it covers any number of such presses in a row.
RefusedAdvanceIsNoOp ==
  (last.op = "advance" /\ last.pre.window = Selection /\ last.pre.term = TERM_DEFAULT)
    => (Snapshot = last.pre /\ escaped = NoError)

RefusedAdvanceSeen ==
  /\ last.op = "advance" /\ last.pre.window = Selection /\ last.pre.term = TERM_DEFAULT
  /\ display_total # EMPTY_DISPLAY

\* C2: "Next" pressed on the selection screen with a catalogue term selected
\* leaves the calculation window shown and the selection window withdrawn.
ValidAdvanceShowsCalculation ==
  (last.op = "advance" /\ last.pre.window = Selection /\ InCatalog(last.pre.term))
    => (window = Calculation /\ escaped = NoError)

ValidAdvanceSeen ==
  last.op = "advance" /\ last.pre.window = Selection /\ last.pre.term = "29-Month"

\* C3: a "Next" that swapped followed at once by "Back" ends on the selection
\* screen with the catalogue, the selected term, the entry and both displays
\* exactly as they were before the "Next".
RoundTripRestores ==
  roundtrip.phase = "returned"
    => (Snapshot = roundtrip.start /\ window = Selection /\ cd_options = CD_OPTIONS)

RoundTripSeen == roundtrip.phase = "returned" /\ display_total # EMPTY_DISPLAY

\* C4: "Calculate" on a principal text that float() rejects blanks both
\* displays, raises nothing, and leaves the windows and the term alone.
ParseErrorRendersBlank ==
  (last.op = "calculate" /\ FloatRaises(entry_principal))
    => /\ BothBlank
       /\ escaped = NoError
       /\ window = last.pre.window
       /\ term_selection = last.pre.term

ParseErrorSeen ==
  /\ last.op = "calculate" /\ FloatRaises(entry_principal)
  /\ last.pre.total # EMPTY_DISPLAY /\ last.pre.dividends # EMPTY_DISPLAY

\* C5: "Calculate" with a term that is not in the catalogue, or with a
\* principal that parses to a value <= 0, blanks both displays and raises
\* nothing, as a parse error does.
OtherErrorsRenderBlank ==
  (/\ last.op = "calculate"
   /\ ~FloatRaises(entry_principal)
   /\ (~InCatalog(term_selection) \/ ~NumLess(NumZero, float(entry_principal))))
    => (BothBlank /\ escaped = NoError)

\* C6 (as claimed): for principal > 0, 0 < rate < 1 and term > 0 the total is
\* greater than the principal and the mean monthly return is positive.
InDomain ==
  /\ result # <<>>
  /\ NumLess(NumZero, args.principal)
  /\ NumLess(NumZero, args.rate) /\ NumLess(args.rate, NumOne)
  /\ args.term > 0

SpecExample == [principal |-> NumOfNat(1000), rate |-> Rate(512, 4), term |-> 8]

ExampleRendersAsClaimed ==
  (args = SpecExample /\ rendered # <<>>)
    => rendered = << <<"$", "6", ".", "8", "3">>,
                     <<"$", "1", "0", "5", "4", ".", "6", "4">> >>

\* C7 (as amended): calculate_cd(1000, 0.0512, 8) renders as 4.34 and 1034.72.
ExampleRendersAsComputed ==
  (args = SpecExample /\ rendered # <<>>)
    => rendered = << <<"$", "4", ".", "3", "4">>,
                     <<"$", "1", "0", "3", "4", ".", "7", "2">> >>

ExampleRendered == args = SpecExample /\ rendered # <<>>

\* C8: "Back" invoked while the selection screen is already the one shown
\* changes nothing and raises nothing.
RetreatInSelectionIsNoOp ==
  (last.op = "retreat" /\ last.pre.window = Selection)
    => (Snapshot = last.pre /\ escaped = NoError)

RetreatInSelectionSeen ==
  last.op = "retreat" /\ last.pre.window = Selection /\ last.pre.term # TERM_DEFAULT

\* C9: while the calculation window is shown the selected term is a key of
\* the catalogue, never the sentinel, and no callback ever lets a KeyError out.
CalculationHasCatalogTerm ==
  /\ window["calculation"] = Normal => InCatalog(term_selection)
  /\ escaped # KeyError

LookupDone ==
  /\ last.op = "calculate" /\ ~FloatRaises(entry_principal)
  /\ window = Calculation /\ display_total # EMPTY_DISPLAY

\* C10: at start-up the selection window is shown and the calculation window
\* withdrawn, and until exit exactly one of the two is shown.
ExactlyOneWindowShown ==
  /\ last.op = "start" => window = Selection
  /\ Alive => window \in {Selection, Calculation}

SwappedBothWays ==
  last.op = "retreat" /\ window = Selection /\ roundtrip.phase = "idle"

====
